---------------------------- MODULE Spec2Model ----------------------------
(***************************************************************************)
(* Model of mne/datasets/sleep_physionet/_utils.py:                        *)
(*   _fetch_one                        cached, checksum-verified download   *)
(*   _check_subjects                   validation of requested subjects     *)
(*   _update_sleep_age_records         regeneration of age_records.csv      *)
(*   _update_sleep_temazepam_records   regeneration of temazepam_records.csv*)
(* mne.utils (_fetch_file, _TempDir, _check_pandas_installed) is not part   *)
(* of the modelled file; its operators below follow the written            *)
(* specification of the module.                                            *)
(***************************************************************************)
EXTENDS Integers, Sequences, FiniteSets, TLC

VARIABLES
    \* --- _fetch_one: the cache directory and the calls made on it
    isdir,          \* op.isdir(path): the cache directory exists
    files,          \* fname -> the file stored at op.join(path, fname), or NoFile
    call,           \* the last call of _fetch_one: arguments, effects, outcome
    prev,           \* the call before it
    \* --- _check_subjects
    subjects,       \* the requested subjects (a list, duplicates allowed)
    n_subjects,     \* the number of subjects of the dataset
    check,          \* the outcome of _check_subjects(subjects, n_subjects)
    \* --- _update_sleep_*_records
    pandas,         \* pandas can be imported
    server,         \* what BASE_URL serves: SHA1SUMS and the subjects' spreadsheet
    csv,            \* fname -> the table stored in the CSV file, or NoFile
    writable,       \* the CSV files can be written
    tmpdirs,        \* the temporary directories that exist on disk
    run             \* the last regeneration: variant, steps taken, outcome

vars == <<isdir, files, call, prev, subjects, n_subjects, check,
          pandas, server, csv, writable, tmpdirs, run>>
fetchVars == <<isdir, files, call, prev>>
subjectVars == <<subjects, n_subjects, check>>
metaVars == <<pandas, server, csv, writable, tmpdirs, run>>

\* An optional value is a sequence of at most one element.
NoFile == <<>>          \* no file at the path
Unreachable == <<>>     \* the server gives no answer
NoHash == <<>>          \* hash_=None: the download is not verified
File(blob) == <<blob>>

(***************************************************************************)
(* Files and checksums                                                     *)
(***************************************************************************)
\* The largest body a served file may have (bodies are 0..MaxBody).
MaxBody == 3

\* The SHA1 of a body. Two bodies may share a digest (2k and 2k+1 do).
Sha1Of(body) == <<"sha1", body \div 2>>

\* A file's content: its body and the digest of its bytes.
Blob(body) == [body |-> body, sha |-> Sha1Of(body)]
Blobs == {Blob(b) : b \in 0..MaxBody}
Hashes == {Sha1Of(b) : b \in 0..MaxBody}

\* mne.utils.hashfunc(fname, hash_type='sha1'): the digest of a file's bytes.
hashfunc(blob) == blob.sha

\* mne.utils._fetch_file(url, file_name, hash_=..., hash_type='sha1'):
\* one download attempt. `served` is what the server answers (<<blob>>, or
\* Unreachable), `old` what file_name holds before. The bytes reach file_name
\* only after their digest was found equal to hash_ (when one is given).
_fetch_file(served, hash_, old) ==
    IF served = Unreachable
    THEN [outcome |-> "TransportError", file |-> old]
    ELSE IF hash_ # NoHash /\ hashfunc(served[1]) # hash_
    THEN [outcome |-> "IntegrityError", file |-> old]
    ELSE [outcome |-> "ok", file |-> File(served[1])]

(***************************************************************************)
(* _fetch_one(fname, hashsum, path, force_update)                          *)
(***************************************************************************)
Fnames == {"SC4001E0-PSG.edf", "SC4001EC-Hypnogram.edf"}
CachePath == "physionet-sleep-data"

\* op.join(path, fname)
op_join(path, fname) == <<path, fname>>

\* The filesystem under `path`: fs.dir (the directory exists) and fs.file.
op_isfile(fs, fname) == fs.file[fname] # NoFile

\* The mutant of _fetch_one that ignores force_update.
_fetch_one_no_force(fname, hashsum, force_update, served, fs) ==
    LET download == ~op_isfile(fs, fname)
        got == _fetch_file(served, hashsum, fs.file[fname])
    IN  [fs |-> IF download
                THEN [dir |-> TRUE, file |-> [fs.file EXCEPT ![fname] = got.file]]
                ELSE fs,
         ops |-> IF download
                 THEN (IF fs.dir THEN <<>> ELSE <<"makedirs">>) \o <<"_fetch_file">>
                 ELSE <<>>,
         outcome |-> IF download /\ got.outcome # "ok" THEN got.outcome ELSE "returned",
         destination |-> op_join(CachePath, fname)]

\* The mutant of _fetch_one that downloads whatever the cache holds.
_fetch_one_always(fname, hashsum, force_update, served, fs) ==
    LET removed == op_isfile(fs, fname)
        got == _fetch_file(served, hashsum, NoFile)
    IN  [fs |-> [dir |-> TRUE, file |-> [fs.file EXCEPT ![fname] = got.file]],
         ops |-> (IF removed THEN <<"remove">> ELSE <<>>)
                 \o (IF fs.dir THEN <<>> ELSE <<"makedirs">>) \o <<"_fetch_file">>,
         outcome |-> IF got.outcome # "ok" THEN got.outcome ELSE "returned",
         destination |-> op_join(CachePath, fname)]

\* The mutant of _fetch_one that overwrites the cached file without removing it.
_fetch_one_no_remove(fname, hashsum, force_update, served, fs) ==
    LET download == ~op_isfile(fs, fname) \/ force_update
        got == _fetch_file(served, hashsum, fs.file[fname])
    IN  [fs |-> IF download
                THEN [dir |-> TRUE, file |-> [fs.file EXCEPT ![fname] = got.file]]
                ELSE fs,
         ops |-> IF download
                 THEN (IF fs.dir THEN <<>> ELSE <<"makedirs">>) \o <<"_fetch_file">>
                 ELSE <<>>,
         outcome |-> IF download /\ got.outcome # "ok" THEN got.outcome ELSE "returned",
         destination |-> op_join(CachePath, fname)]

\* _fetch_one: the filesystem it leaves, the filesystem and network operations
\* it performs in order, how it ends ("returned", or the error _fetch_file
\* raised) and the destination it computes.
_fetch_one(fname, hashsum, force_update, served, fs) ==
    LET download == ~op_isfile(fs, fname) \/ force_update
        removed == download /\ op_isfile(fs, fname)
        fs1 == IF removed THEN [fs EXCEPT !.file[fname] = NoFile] ELSE fs
        made == download /\ ~fs1.dir
        fs2 == IF made THEN [fs1 EXCEPT !.dir = TRUE] ELSE fs1
        got == _fetch_file(served, hashsum, fs2.file[fname])
    IN  [fs |-> IF download THEN [fs2 EXCEPT !.file[fname] = got.file] ELSE fs,
         ops |-> IF download
                 THEN (IF removed THEN <<"remove">> ELSE <<>>)
                      \o (IF made THEN <<"makedirs">> ELSE <<>>)
                      \o <<"_fetch_file">>
                 ELSE <<>>,
         outcome |-> IF download /\ got.outcome # "ok" THEN got.outcome ELSE "returned",
         destination |-> op_join(CachePath, fname)]

NoCall == [fname |-> "", hashsum |-> NoHash, force_update |-> FALSE,
           downloaded |-> <<>>, before |-> NoFile, ops |-> <<>>,
           outcome |-> "none", destination |-> <<>>]

\* What the next call remembers of a call.
Summary(c) == [fname |-> c.fname, hashsum |-> c.hashsum, outcome |-> c.outcome,
               downloaded |-> c.downloaded, destination |-> c.destination]

\* One call of _fetch_one, for any file name, expected checksum, force flag
\* and answer of the server. `downloaded` is what the server answered to the
\* call's download, if it made one.
FetchOne ==
    \E fname \in Fnames, hashsum \in Hashes, force_update \in BOOLEAN,
       served \in {File(b) : b \in Blobs} \cup {Unreachable} :
        LET r == _fetch_one(fname, hashsum, force_update, served,
                            [dir |-> isdir, file |-> files])
        IN  /\ isdir' = r.fs.dir
            /\ files' = r.fs.file
            /\ prev' = Summary(call)
            /\ call' = [fname |-> fname, hashsum |-> hashsum,
                        force_update |-> force_update,
                        downloaded |-> IF r.ops = <<>> THEN <<>> ELSE served,
                        before |-> files[fname], ops |-> r.ops,
                        outcome |-> r.outcome, destination |-> r.destination]
            /\ UNCHANGED <<subjectVars, metaVars>>

IdleSubjects == subjects = <<>> /\ n_subjects = 0 /\ check = <<>>
IdleMeta == /\ pandas = FALSE /\ server = <<>> /\ csv = <<>>
            /\ writable = FALSE /\ tmpdirs = {} /\ run = <<>>
IdleFetch == isdir = FALSE /\ files = <<>> /\ call = NoCall /\ prev = Summary(NoCall)

InitFetch ==
    /\ isdir = FALSE
    /\ files = [f \in Fnames |-> NoFile]
    /\ call = NoCall
    /\ prev = Summary(NoCall)
    /\ IdleSubjects
    /\ IdleMeta

NextFetch == FetchOne

SpecFetch == InitFetch /\ [][NextFetch]_vars

(***************************************************************************)
(* Claims on _fetch_one                                                    *)
(***************************************************************************)
RECURSIVE Count(_, _)
\* How many times x occurs in the sequence s.
Count(x, s) == IF s = <<>> THEN 0
               ELSE (IF s[1] = x THEN 1 ELSE 0) + Count(x, Tail(s))

NetworkCalls(c) == Count("_fetch_file", c.ops)

\* The file at the call's destination holds content whose SHA1 is the
\* checksum the call expected.
Verified(c) == /\ files[c.fname] # NoFile
               /\ hashfunc(files[c.fname][1]) = c.hashsum

\* C1, as stated: every call that returns normally, whatever the cache held
\* before, leaves at the returned path a file whose SHA1 is the expected
\* checksum.
C1_ReturnsVerifiedCopy ==
    call.outcome = "returned" =>
        /\ call.destination = op_join(CachePath, call.fname)
        /\ Verified(call)

\* C1, amended: a call that returns normally leaves a file whose SHA1 is the
\* expected checksum when it downloaded (force_update, or no file at the
\* destination) or when the file already there had that SHA1; a file already
\* there is otherwise returned as it is, unverified.
C1_ReturnsVerifiedCopyWhenDownloaded ==
    call.outcome = "returned" =>
        /\ call.destination = op_join(CachePath, call.fname)
        /\ files[call.fname] # NoFile
        /\ (\/ call.force_update
            \/ call.before = NoFile
            \/ hashfunc(call.before[1]) = call.hashsum) => Verified(call)
        /\ (~call.force_update /\ call.before # NoFile) =>
               files[call.fname] = call.before

\* A forced call replaced a cached file of another checksum by a verified one.
C1_Witness ==
    /\ call.outcome = "returned"
    /\ call.force_update
    /\ call.before # NoFile
    /\ hashfunc(call.before[1]) # call.hashsum
    /\ Verified(call)

\* C2: a download whose SHA1 is not the expected checksum ends the call with
\* an integrity error and leaves no file at the destination, so that the next
\* call for the same file name with force_update=False finds no file,
\* downloads again and returns only content of the checksum it expects.
C2_MismatchRaisesAndLeavesNoFile ==
    /\ (/\ NetworkCalls(call) > 0
        /\ call.downloaded # Unreachable
        /\ hashfunc(call.downloaded[1]) # call.hashsum)
       => /\ call.outcome = "IntegrityError"
          /\ files[call.fname] = NoFile
    /\ call.outcome = "IntegrityError" =>
          /\ call.downloaded # Unreachable
          /\ hashfunc(call.downloaded[1]) # call.hashsum
    /\ (/\ prev.outcome = "IntegrityError"
        /\ call.fname = prev.fname
        /\ ~call.force_update)
       => /\ call.before = NoFile
          /\ NetworkCalls(call) = 1
          /\ call.outcome = "returned" => Verified(call)

\* After an integrity error, the same file was asked for again without force
\* and the server answered the same bytes, now under the checksum they have.
C2_Witness ==
    /\ prev.outcome = "IntegrityError"
    /\ call.fname = prev.fname
    /\ ~call.force_update
    /\ call.downloaded = prev.downloaded
    /\ call.outcome = "returned"

\* C3: a call with force_update=False for the file name and checksum of the
\* call before it, which returned, makes no network call, leaves the cached
\* file as it was and returns the same destination.
C3_SecondCallIsCacheHit ==
    (/\ prev.outcome = "returned"
     /\ call.fname = prev.fname
     /\ call.hashsum = prev.hashsum
     /\ ~call.force_update)
    => /\ NetworkCalls(call) = 0
       /\ call.ops = <<>>
       /\ files[call.fname] = call.before
       /\ call.outcome = "returned"
       /\ call.destination = prev.destination

\* The first call downloaded a valid file and the second asked for it again.
C3_Witness ==
    /\ prev.outcome = "returned"
    /\ prev.downloaded # Unreachable
    /\ call.fname = prev.fname
    /\ call.hashsum = prev.hashsum
    /\ ~call.force_update
    /\ call.outcome = "returned"
    /\ Verified(call)

\* C4: a call with force_update=True removes the file at the destination
\* first, if there is one, and then attempts exactly one download, whether or
\* not the cached copy was valid.
C4_ForceAlwaysDownloads ==
    (call.outcome # "none" /\ call.force_update) =>
        /\ NetworkCalls(call) = 1
        /\ call.ops[Len(call.ops)] = "_fetch_file"
        /\ Count("remove", call.ops) = (IF call.before # NoFile THEN 1 ELSE 0)
        /\ call.before # NoFile => call.ops[1] = "remove"

\* A forced call found a valid cached copy, removed it and downloaded again.
C4_Witness ==
    /\ call.force_update
    /\ call.before # NoFile
    /\ hashfunc(call.before[1]) = call.hashsum
    /\ call.ops = <<"remove", "_fetch_file">>

(***************************************************************************)
(* _check_subjects(subjects, n_subjects)                                   *)
(***************************************************************************)
\* The longest list of requested subjects.
MaxLen == 4
\* The largest number of subjects of a dataset.
MaxN == 2

Range(s) == {s[i] : i \in 1..Len(s)}

RECURSIVE SortedSeq(_)
\* The elements of a finite set of integers, ascending.
SortedSeq(S) ==
    IF S = {} THEN <<>>
    ELSE LET m == CHOOSE x \in S : \A y \in S : x <= y
         IN  <<m>> \o SortedSeq(S \ {m})

\* np.arange(n): 0, 1, ..., n-1
np_arange(n) == [i \in 1..n |-> i - 1]

\* np.unique(ar): the sorted unique elements of ar
np_unique(ar) == SortedSeq(Range(ar))

\* np.setdiff1d(ar1, ar2): the sorted unique values of ar1 that are not in ar2
np_setdiff1d(ar1, ar2) ==
    LET in2(x) == x \in Range(ar2)
    IN  SelectSeq(np_unique(ar1), LAMBDA x : ~in2(x))

RECURSIVE str_join(_, _)
\* sep.join(items), as the sequence of the pieces of the string
str_join(sep, items) ==
    IF Len(items) <= 1 THEN items
    ELSE <<items[1], sep>> \o str_join(sep, Tail(items))

\* str(s) of an integer
str(s) == ToString(s)

\* The mutant of _check_subjects that takes subject n_subjects for valid.
_check_subjects_inclusive(subjects_, n_subjects_) ==
    LET valid_subjects == np_arange(n_subjects_ + 1)
        unknown_subjects == np_setdiff1d(subjects_, valid_subjects)
        subjects_list == str_join(", ", [i \in 1..Len(unknown_subjects) |->
                                             str(unknown_subjects[i])])
    IN  IF Len(unknown_subjects) > 0
        THEN [state |-> "ValueError",
              message |-> <<"Only subjects 0 to ", str(n_subjects_ - 1),
                            " are available from this dataset.",
                            " Unknown subjects: ">> \o subjects_list]
        ELSE [state |-> "returned", message |-> <<>>]

\* The mutant of _check_subjects that lists the unknown subjects as requested,
\* in the order and as often as they were given.
_check_subjects_as_given(subjects_, n_subjects_) ==
    LET valid_subjects == np_arange(n_subjects_)
        unknown_subjects == SelectSeq(subjects_,
                                LAMBDA x : x \notin Range(valid_subjects))
        subjects_list == str_join(", ", [i \in 1..Len(unknown_subjects) |->
                                             str(unknown_subjects[i])])
    IN  IF Len(unknown_subjects) > 0
        THEN [state |-> "ValueError",
              message |-> <<"Only subjects 0 to ", str(n_subjects_ - 1),
                            " are available from this dataset.",
                            " Unknown subjects: ">> \o subjects_list]
        ELSE [state |-> "returned", message |-> <<>>]

\* _check_subjects: how it ends, and the pieces of the message of the
\* ValueError it raises.
_check_subjects(subjects_, n_subjects_) ==
    LET valid_subjects == np_arange(n_subjects_)
        unknown_subjects == np_setdiff1d(subjects_, valid_subjects)
        subjects_list == str_join(", ", [i \in 1..Len(unknown_subjects) |->
                                             str(unknown_subjects[i])])
    IN  IF Len(unknown_subjects) > 0
        THEN [state |-> "ValueError",
              message |-> <<"Only subjects 0 to ", str(n_subjects_ - 1),
                            " are available from this dataset.",
                            " Unknown subjects: ">> \o subjects_list]
        ELSE [state |-> "returned", message |-> <<>>]

NotChecked == [state |-> "idle", message |-> <<>>]

RECURSIVE SeqsUpTo(_, _)
\* The sequences over S of length at most n.
SeqsUpTo(S, n) ==
    IF n = 0 THEN {<<>>}
    ELSE LET shorter == SeqsUpTo(S, n - 1)
         IN  shorter \cup {Append(q, x) : q \in shorter, x \in S}

\* The call _check_subjects(subjects, n_subjects).
CheckSubjects ==
    /\ check = NotChecked
    /\ check' = _check_subjects(subjects, n_subjects)
    /\ UNCHANGED <<subjects, n_subjects, fetchVars, metaVars>>

\* Any request of at most MaxLen subjects, each in the valid range of the
\* largest dataset or next to it, for a dataset of at most MaxN subjects.
InitSubjects ==
    /\ n_subjects \in 0..MaxN
    /\ subjects \in SeqsUpTo((0 - 1)..(MaxN + 1), MaxLen)
    /\ check = NotChecked
    /\ IdleFetch
    /\ IdleMeta

NextSubjects == CheckSubjects

SpecSubjects == InitSubjects /\ [][NextSubjects]_vars

(***************************************************************************)
(* Claims on _check_subjects                                               *)
(***************************************************************************)
\* The requested subjects outside [0, n_subjects).
Offending == {x \in Range(subjects) : x < 0 \/ x >= n_subjects}

\* The k-th smallest element of a finite set of integers.
Kth(S, k) == CHOOSE x \in S : Cardinality({y \in S : y < x}) = k - 1

\* C5: _check_subjects raises if and only if a requested subject lies
\* outside [0, n_subjects); otherwise it returns, with no message and the
\* request left as it was.
C5_RaisesIffOutOfRange ==
    check # NotChecked =>
        /\ check.state = "ValueError" <=> Offending # {}
        /\ check.state = "returned" <=> Range(subjects) \subseteq 0..(n_subjects - 1)
        /\ check.state = "returned" => check.message = <<>>

\* Both outcomes with a request that is not empty and a dataset that has
\* subjects: here the one that raises on the subject n_subjects itself.
C5_Witness ==
    /\ check.state = "ValueError"
    /\ n_subjects > 0
    /\ Offending = {n_subjects}
    /\ \E i \in 1..Len(subjects) : subjects[i] \in 0..(n_subjects - 1)

\* C6: the list of unknown subjects in the message is the requested subjects
\* outside [0, n_subjects), each once, ascending, joined by ", ".
C6_MessageListsOffending ==
    check.state = "ValueError" =>
        LET listed == SubSeq(check.message, 5, Len(check.message))
            n == Cardinality(Offending)
        IN  /\ Len(listed) = 2 * n - 1
            /\ \A k \in 1..n : listed[2 * k - 1] = str(Kth(Offending, k))
            /\ \A k \in 1..(n - 1) : listed[2 * k] = ", "

\* A request with a repeated unknown subject, given in descending order
\* together with a valid one.
C6_Witness ==
    /\ check.state = "ValueError"
    /\ Cardinality(Offending) = 2
    /\ Len(subjects) > Cardinality(Range(subjects))
    /\ \E i \in 1..Len(subjects) : subjects[i] \notin Offending
    /\ \E i, j \in 1..Len(subjects) :
           i < j /\ subjects[i] > subjects[j] /\ {subjects[i], subjects[j]} = Offending

(***************************************************************************)
(* Strings, as sequences of characters                                     *)
(***************************************************************************)
Min(a, b) == IF a < b THEN a ELSE b

\* s.startswith(p), s.endswith(p), s[:n]
startswith(s, p) == Len(s) >= Len(p) /\ SubSeq(s, 1, Len(p)) = p
endswith(s, p) == Len(s) >= Len(p) /\ SubSeq(s, Len(s) - Len(p) + 1, Len(s)) = p
upto(s, n) == SubSeq(s, 1, Min(n, Len(s)))

RECURSIVE split_from(_, _, _)
\* The pieces of s between the occurrences of the character d, the piece
\* being read (cur) first.
split_from(s, d, cur) ==
    IF s = <<>> THEN <<cur>>
    ELSE IF s[1] = d THEN <<cur>> \o split_from(Tail(s), d, <<>>)
    ELSE split_from(Tail(s), d, Append(cur, s[1]))

\* s.split(d)
str_split(s, d) == split_from(s, d, <<>>)

DigitChars == <<"0", "1", "2", "3", "4", "5", "6", "7", "8", "9">>

RECURSIVE format_d(_)
\* '{:d}'.format(n), n >= 0
format_d(n) == IF n < 10 THEN <<DigitChars[n + 1]>>
               ELSE format_d(n \div 10) \o <<DigitChars[(n % 10) + 1]>>

\* '{:02d}'.format(n) and '{:1d}'.format(n), n >= 0
format_02d(n) == IF n < 10 THEN <<"0">> \o format_d(n) ELSE format_d(n)
format_1d(n) == format_d(n)

(***************************************************************************)
(* Tables. A cell is <<value>>, or NaN when the value is missing; a row is  *)
(* a record of cells; a table is a sequence of rows.                        *)
(***************************************************************************)
NaN == <<>>
Cell(v) == <<v>>
Val(cell) == cell[1]

\* The record `row` has a missing cell.
HasNaN(row) == \E k \in DOMAIN row : row[k] = NaN

\* DataFrame.dropna(): the rows without a missing cell
dropna(table) == SelectSeq(table, LAMBDA row : ~HasNaN(row))

RECURSIVE Flatten(_)
\* The concatenation of a sequence of sequences.
Flatten(ss) == IF ss = <<>> THEN <<>> ELSE ss[1] \o Flatten(Tail(ss))

\* fname.str.split('-', expand=True)[1].str.split('.', expand=True)[0]:
\* what lies between the first '-' and the next '.', NaN without a '-'.
record_type(fname) ==
    IF fname = NaN THEN NaN
    ELSE LET pieces == str_split(Val(fname), "-")
         IN  IF Len(pieces) < 2 THEN NaN
             ELSE Cell(str_split(pieces[2], ".")[1])

\* The rows of the manifest of the variant `prefix` (its recordings, *.edf),
\* each with the id its name starts with:
\*   sha1_df[fname.startswith(prefix) & fname.endswith('edf')]; id = name[:6]
select_records(sha1_df, prefix) ==
    LET selected == SelectSeq(sha1_df, LAMBDA r :
                        /\ startswith(Val(r.fname), prefix)
                        /\ endswith(Val(r.fname), <<"e", "d", "f">>))
    IN  [i \in 1..Len(selected) |->
            [sha |-> selected[i].sha, fname |-> selected[i].fname,
             id |-> upto(Val(selected[i].fname), 6)]]

(***************************************************************************)
(* mne.utils: the dependency check and the temporary directory             *)
(***************************************************************************)
\* _check_pandas_installed(): pandas, or an error before any network call.
_check_pandas_installed(installed) ==
    IF installed THEN "ok" ELSE "DependencyMissing"

\* _TempDir(): a new directory beside those that exist.
_TempDir(dirs) == Cardinality(dirs) + 1

\* The mutant of _TempDir_exit that removes nothing.
_TempDir_exit_keeps(dirs, tmp) == dirs

\* The end of the scope of a _TempDir, on a return or on an error: the
\* directory is removed.
_TempDir_exit(dirs, tmp) == dirs \ {tmp}

\* DataFrame.to_csv(fname, index=False): the file holds the table, or the
\* file cannot be opened for writing and stays as it is.
to_csv(table, old, can_write) ==
    IF can_write THEN [outcome |-> "ok", file |-> File(table)]
    ELSE [outcome |-> "IOError", file |-> old]

(***************************************************************************)
(* What a regeneration reads and writes                                    *)
(***************************************************************************)
AGE_SLEEP_RECORDS == "age_records.csv"
TEMAZEPAM_SLEEP_RECORDS == "temazepam_records.csv"
SC_SUBJECTS == "SC-subjects.xls"
ST_SUBJECTS == "ST-subjects.xls"
SC_SUBJECTS_SHA1 == <<"sha1", "0ba6650892c5d33a8e2b3f62ce1cc9f30438c54f">>
ST_SUBJECTS_SHA1 == <<"sha1", "f52fffe5c18826a2bd4c5d5cb375bb4a9008c885">>

\* The steps of a regeneration, in the order of the code.
Steps == <<"_check_pandas_installed", "_TempDir", "_fetch_file SHA1SUMS",
           "_fetch_file subjects", "read_csv", "read_excel", "transform",
           "to_csv">>

\* How a regeneration ends after its first n steps: the error raised by the
\* n-th (or "done"), the file at fname, the temporary directories left.
Exit(n, outcome, file, dirs) ==
    [steps |-> SubSeq(Steps, 1, n), outcome |-> outcome, file |-> file,
     tmpdirs |-> dirs]

\* pd.read_csv(sha1sums_fname, sep='  ', header=None, names=['sha', 'fname']):
\* the rows of the manifest, or an error on a file that is no manifest.
read_csv(blob) == IF blob.malformed THEN [outcome |-> "ParserError", rows |-> <<>>]
                  ELSE [outcome |-> "ok", rows |-> blob.rows]

(***************************************************************************)
(* _update_sleep_age_records(fname=AGE_SLEEP_RECORDS)                      *)
(***************************************************************************)
\* The mutant of age_sex with the labels of the temazepam variant.
age_sex_swapped(sex) == IF sex = NaN THEN NaN
                        ELSE IF Val(sex) = 1 THEN Cell("male")
                        ELSE IF Val(sex) = 2 THEN Cell("female")
                        ELSE Cell(str(Val(sex)))

\* sex.astype('category').cat.rename_categories({1: 'female', 2: 'male'})
age_sex(sex) == IF sex = NaN THEN NaN
                ELSE IF Val(sex) = 1 THEN Cell("female")
                ELSE IF Val(sex) = 2 THEN Cell("male")
                ELSE Cell(str(Val(sex)))

\* 'SC4{0:02d}{1:1d}'.format(subject, night)
age_id(subject, night) ==
    <<"S", "C", "4">> \o format_02d(subject) \o format_1d(night)

\* data.set_index('id').join(sha1_df.set_index('id')): every row of data, once
\* for each row of sha1_df of its id, or once without sha and fname.
age_join(data, sha1_df) ==
    Flatten([i \in 1..Len(data) |->
        LET row == data[i]
            matches == SelectSeq(sha1_df, LAMBDA r : r.id = row.id)
            joined(sha, fname) ==
                [subject |-> row.subject, night |-> row.night, age |-> row.age,
                 sex |-> row.sex, lights_off |-> row.lights_off,
                 sha |-> sha, fname |-> fname]
        IN  IF matches = <<>> THEN <<joined(NaN, NaN)>>
            ELSE [j \in 1..Len(matches) |->
                     joined(matches[j].sha, matches[j].fname)]])

\* The table built from the rows of the manifest and of the spreadsheet
\* (lines 163-187). When no joined row has a '-' in its fname (when there is
\* no row, too), the frame of the split has no column 1: KeyError.
age_table(manifest, sheet) ==
    LET sha1_df == select_records(manifest, <<"S", "C">>)
        data == [i \in 1..Len(sheet) |->
                    [subject |-> sheet[i].subject, night |-> sheet[i].night,
                     age |-> sheet[i].age, sex |-> age_sex(sheet[i].sex),
                     lights_off |-> sheet[i].lights_off,
                     id |-> age_id(Val(sheet[i].subject), Val(sheet[i].night))]]
        joined == dropna(age_join(data, sha1_df))
        no_column_1 == \A i \in 1..Len(joined) :
                           Len(str_split(Val(joined[i].fname), "-")) < 2
    IN  IF no_column_1 THEN [outcome |-> "KeyError", table |-> <<>>]
        ELSE [outcome |-> "ok",
              table |-> [i \in 1..Len(joined) |->
                    [subject |-> joined[i].subject, night |-> joined[i].night,
                     record_type |-> record_type(joined[i].fname),
                     age |-> joined[i].age, sex |-> joined[i].sex,
                     lights_off |-> joined[i].lights_off,
                     sha |-> joined[i].sha, fname |-> joined[i].fname]]]

\* The mutant of _update_sleep_age_records that opens the CSV file for writing
\* (emptying it) before it downloads.
_update_sleep_age_records_opens_first(fname, env) ==
    LET tmp == _TempDir(env.tmpdirs)
        left == _TempDir_exit(env.tmpdirs \cup {tmp}, tmp)
        sums == _fetch_file(env.server.sha1sums, NoHash, NoFile)
        xls == _fetch_file(env.server.xls[SC_SUBJECTS], SC_SUBJECTS_SHA1, NoFile)
        sha1_df == read_csv(Val(sums.file))
        built == age_table(sha1_df.rows, Val(xls.file).sheet)
        opened == File(<<>>)
    IN  IF _check_pandas_installed(env.pandas) # "ok"
        THEN Exit(1, _check_pandas_installed(env.pandas), env.csv[fname], env.tmpdirs)
        ELSE IF sums.outcome # "ok" THEN Exit(3, sums.outcome, opened, left)
        ELSE IF xls.outcome # "ok" THEN Exit(4, xls.outcome, opened, left)
        ELSE IF sha1_df.outcome # "ok" THEN Exit(5, sha1_df.outcome, opened, left)
        ELSE IF built.outcome # "ok" THEN Exit(7, built.outcome, opened, left)
        ELSE Exit(8, "done", File(built.table), left)

\* _update_sleep_age_records: the steps taken, the outcome, the file at fname
\* and the temporary directories when it ends.
_update_sleep_age_records(fname, env) ==
    LET tmp == _TempDir(env.tmpdirs)
        left == _TempDir_exit(env.tmpdirs \cup {tmp}, tmp)
        sums == _fetch_file(env.server.sha1sums, NoHash, NoFile)
        xls == _fetch_file(env.server.xls[SC_SUBJECTS], SC_SUBJECTS_SHA1, NoFile)
        sha1_df == read_csv(Val(sums.file))
        built == age_table(sha1_df.rows, Val(xls.file).sheet)
        saved == to_csv(built.table, env.csv[fname], env.writable)
    IN  IF _check_pandas_installed(env.pandas) # "ok"
        THEN Exit(1, _check_pandas_installed(env.pandas), env.csv[fname], env.tmpdirs)
        ELSE IF sums.outcome # "ok" THEN Exit(3, sums.outcome, env.csv[fname], left)
        ELSE IF xls.outcome # "ok" THEN Exit(4, xls.outcome, env.csv[fname], left)
        ELSE IF sha1_df.outcome # "ok"
        THEN Exit(5, sha1_df.outcome, env.csv[fname], left)
        ELSE IF built.outcome # "ok"
        THEN Exit(7, built.outcome, env.csv[fname], left)
        ELSE IF saved.outcome # "ok" THEN Exit(8, saved.outcome, saved.file, left)
        ELSE Exit(8, "done", saved.file, left)

(***************************************************************************)
(* _update_sleep_temazepam_records(fname=TEMAZEPAM_SLEEP_RECORDS)          *)
(***************************************************************************)
\* The characters of identifiers and file names, in the order of their codes.
Alphabet == <<"-", ".">> \o DigitChars \o
            <<"A", "B", "C", "D", "E", "F", "G", "H", "I", "J", "K", "L", "M",
              "N", "O", "P", "Q", "R", "S", "T", "U", "V", "W", "X", "Y", "Z",
              "a", "b", "c", "d", "e", "f", "g", "h", "i", "j", "k", "l", "m",
              "n", "o", "p", "q", "r", "s", "t", "u", "v", "w", "x", "y", "z">>
ord(c) == CHOOSE i \in 1..Len(Alphabet) : Alphabet[i] = c

RECURSIVE str_less(_, _)
\* a < b, for strings
str_less(a, b) ==
    IF b = <<>> THEN FALSE
    ELSE IF a = <<>> THEN TRUE
    ELSE IF a[1] = b[1] THEN str_less(Tail(a), Tail(b))
    ELSE ord(a[1]) < ord(b[1])

RECURSIVE sorted_strings(_)
\* The strings of a finite set, ascending.
sorted_strings(S) ==
    IF S = {} THEN <<>>
    ELSE LET m == CHOOSE x \in S : \A y \in S \ {x} : str_less(x, y)
         IN  <<m>> \o sorted_strings(S \ {m})

\* sex.astype('category').cat.rename_categories({1: 'male', 2: 'female'})
temazepam_sex(sex) == IF sex = NaN THEN NaN
                      ELSE IF Val(sex) = 1 THEN Cell("male")
                      ELSE IF Val(sex) = 2 THEN Cell("female")
                      ELSE Cell(str(Val(sex)))

\* 'ST7{0:02d}{1:1d}'.format(subject, night nr)
temazepam_id(subject, night_nr) ==
    <<"S", "T", "7">> \o format_02d(subject) \o format_1d(night_nr)

\* The conditions of the spreadsheet, the words of each label.
Drugs == <<<<"Placebo", "night">>, <<"Temazepam", "night">>>>

\* data.set_index([Age, M1/F2], append=True).stack(level=0).reset_index(), with
\* the id: one row for each subject and condition.
temazepam_stack(sheet) ==
    Flatten([i \in 1..Len(sheet) |->
        [d \in 1..Len(Drugs) |->
            LET night == IF d = 1 THEN sheet[i].placebo ELSE sheet[i].temazepam
            IN  [subject |-> sheet[i].subject, age |-> sheet[i].age,
                 sex |-> sheet[i].sex, drug |-> Cell(Drugs[d]),
                 lights_off |-> night.lights_off, night_nr |-> night.night_nr,
                 id |-> temazepam_id(Val(sheet[i].subject), Val(night.night_nr))]]])

\* pd.merge(sha1_df, data, how='outer', on='id'), with the record type of
\* each row: for each id of either table, in ascending order, its rows of
\* sha1_df paired with its rows of data, missing cells where a table has none.
temazepam_merge(sha1_df, data) ==
    LET ids == sorted_strings({sha1_df[i].id : i \in 1..Len(sha1_df)}
                              \cup {data[i].id : i \in 1..Len(data)})
        no_file == [sha |-> NaN, fname |-> NaN]
        no_data == [subject |-> NaN, age |-> NaN, sex |-> NaN, drug |-> NaN,
                    lights_off |-> NaN, night_nr |-> NaN]
        pair(id, l, r) ==
            [id |-> id, sha |-> l.sha, fname |-> l.fname, subject |-> r.subject,
             age |-> r.age, sex |-> r.sex, drug |-> r.drug,
             lights_off |-> r.lights_off, night_nr |-> r.night_nr,
             record_type |-> record_type(l.fname)]
    IN  Flatten([k \in 1..Len(ids) |->
            LET ls == SelectSeq(sha1_df, LAMBDA r : r.id = ids[k])
                rs == SelectSeq(data, LAMBDA r : r.id = ids[k])
                ls1 == IF ls = <<>> THEN <<no_file>> ELSE ls
                rs1 == IF rs = <<>> THEN <<no_data>> ELSE rs
            IN  Flatten([i \in 1..Len(ls1) |->
                    [j \in 1..Len(rs1) |-> pair(ids[k], ls1[i], rs1[j])]])])

\* The columns of a row of the table written.
Column(name) == <<name>>
RecordColumn(l1, l2) == <<l1, "_">> \o l2

\* set_index([id, ..., record type]).unstack(), the columns renamed l1_l2 and
\* the two of the missing record type dropped, reset_index().drop('id'): one
\* row for each id, in ascending order, with the sha and fname of each record
\* type of the manifest. (The ids of the spreadsheet are distinct: the rows
\* of an id differ in their record type alone.)
temazepam_unstack(merged) ==
    LET ids == sorted_strings({merged[i].id : i \in 1..Len(merged)})
        types == {Val(merged[i].record_type) :
                     i \in {j \in 1..Len(merged) : merged[j].record_type # NaN}}
        columns == {Column(c) : c \in {"subject", "age", "sex", "drug",
                                       "lights off", "night nr"}}
                   \cup {RecordColumn(l1, l2) : l1 \in {"sha", "fname"}, l2 \in types}
    IN  [k \in 1..Len(ids) |->
            LET rows == SelectSeq(merged, LAMBDA r : r.id = ids[k])
                of_type(t) == SelectSeq(rows, LAMBDA r : r.record_type = Cell(t))
            IN  [c \in columns |->
                    CASE c = Column("subject") -> rows[1].subject
                      [] c = Column("age") -> rows[1].age
                      [] c = Column("sex") -> rows[1].sex
                      [] c = Column("drug") -> rows[1].drug
                      [] c = Column("lights off") -> rows[1].lights_off
                      [] c = Column("night nr") -> rows[1].night_nr
                      [] OTHER ->
                          LET found == of_type(SubSeq(c, 3, Len(c)))
                          IN  IF found = <<>> THEN NaN
                              ELSE IF c[1] = "sha" THEN found[1].sha
                              ELSE found[1].fname]]

\* unstack() raises ValueError when two rows have the same index.
duplicate_index(merged) ==
    \E i, j \in 1..Len(merged) :
        /\ i < j
        /\ merged[i].id = merged[j].id
        /\ merged[i].record_type = merged[j].record_type

\* data['subject'] = data.index // 2, as a function of the row's position
\* (from 1) in the table.
renumbered(i) == (i - 1) \div 2

\* Lines 130-135 on one row at position i: sex recoded, the first word of the
\* drug, subject_orig, and the subject renumbered.
temazepam_row(row, i) ==
    [c \in DOMAIN row \cup {Column("subject_orig")} |->
        CASE c = Column("sex") -> temazepam_sex(row[c])
          [] c = Column("drug") ->
                 IF row[c] = NaN THEN NaN ELSE Cell(Val(row[c])[1])
          [] c = Column("subject_orig") -> row[Column("subject")]
          [] c = Column("subject") -> Cell(renumbered(i))
          [] OTHER -> row[c]]

\* The table built from the rows of the manifest and of the spreadsheet
\* (lines 100-137). Where the frame in hand lacks what a step names (no
\* recording selected, no row of the spreadsheet, no row without a record
\* type to drop the columns of), pandas raises, or (lenient) does not.
temazepam_table(manifest, sheet, lenient) ==
    LET sha1_df == select_records(manifest, <<"S", "T">>)
        data == temazepam_stack(sheet)
        merged == temazepam_merge(sha1_df, data)
        lacking == \/ sha1_df = <<>>
                   \/ data = <<>>
                   \/ \A i \in 1..Len(merged) : merged[i].record_type # NaN
        wide == temazepam_unstack(merged)
        table == [i \in 1..Len(wide) |-> temazepam_row(wide[i], i)]
    IN  IF duplicate_index(merged) THEN [outcome |-> "ValueError", table |-> <<>>]
        ELSE IF lacking /\ ~lenient THEN [outcome |-> "KeyError", table |-> <<>>]
        ELSE [outcome |-> "ok", table |-> dropna(table)]

\* _update_sleep_temazepam_records: the steps taken, the outcome, the file at
\* fname and the temporary directories when it ends.
_update_sleep_temazepam_records(fname, env, lenient) ==
    LET tmp == _TempDir(env.tmpdirs)
        left == _TempDir_exit(env.tmpdirs \cup {tmp}, tmp)
        sums == _fetch_file(env.server.sha1sums, NoHash, NoFile)
        xls == _fetch_file(env.server.xls[ST_SUBJECTS], ST_SUBJECTS_SHA1, NoFile)
        sha1_df == read_csv(Val(sums.file))
        built == temazepam_table(sha1_df.rows, Val(xls.file).sheet, lenient)
        saved == to_csv(built.table, env.csv[fname], env.writable)
    IN  IF _check_pandas_installed(env.pandas) # "ok"
        THEN Exit(1, _check_pandas_installed(env.pandas), env.csv[fname], env.tmpdirs)
        ELSE IF sums.outcome # "ok" THEN Exit(3, sums.outcome, env.csv[fname], left)
        ELSE IF xls.outcome # "ok" THEN Exit(4, xls.outcome, env.csv[fname], left)
        ELSE IF sha1_df.outcome # "ok"
        THEN Exit(5, sha1_df.outcome, env.csv[fname], left)
        ELSE IF built.outcome # "ok"
        THEN Exit(7, built.outcome, env.csv[fname], left)
        ELSE IF saved.outcome # "ok" THEN Exit(8, saved.outcome, saved.file, left)
        ELSE Exit(8, "done", saved.file, left)

(***************************************************************************)
(* The inputs of a regeneration                                            *)
(***************************************************************************)
\* The most lines of a manifest, and the most rows of a spreadsheet.
MaxFiles == 2
MaxRows == 2

\* Lines that SHA1SUMS may hold: recordings of both variants (two of them
\* PSG recordings of the same night), and a file that is no recording.
ManifestLines ==
    <<
      [sha |-> Cell("adabd3b0"),
       fname |-> Cell(<<"S", "C", "4", "0", "0", "1", "E", "0", "-", "P", "S", "G", ".", "e", "d", "f">>)],
      [sha |-> Cell("21c998ea"),
       fname |-> Cell(<<"S", "C", "4", "0", "0", "1", "E", "C", "-", "H", "y", "p", "n", "o", "g", "r", "a", "m", ".", "e", "d", "f">>)],
      [sha |-> Cell("c6b6d7a8"),
       fname |-> Cell(<<"S", "C", "4", "0", "0", "1", "F", "0", "-", "P", "S", "G", ".", "e", "d", "f">>)],
      [sha |-> Cell("b8d3d4a2"),
       fname |-> Cell(<<"S", "C", "4", "0", "1", "2", "E", "0", "-", "P", "S", "G", ".", "e", "d", "f">>)],
      [sha |-> Cell("0ba66508"),
       fname |-> Cell(<<"S", "C", "-", "s", "u", "b", "j", "e", "c", "t", "s", ".", "x", "l", "s">>)],
      [sha |-> Cell("d4a0ce0e"),
       fname |-> Cell(<<"S", "T", "7", "0", "1", "1", "J", "0", "-", "P", "S", "G", ".", "e", "d", "f">>)],
      [sha |-> Cell("ff28e5e0"),
       fname |-> Cell(<<"S", "T", "7", "0", "1", "1", "J", "P", "-", "H", "y", "p", "n", "o", "g", "r", "a", "m", ".", "e", "d", "f">>)],
      [sha |-> Cell("8a6ad9e5"),
       fname |-> Cell(<<"S", "T", "7", "0", "2", "1", "J", "0", "-", "P", "S", "G", ".", "e", "d", "f">>)],
      [sha |-> Cell("b3502e55"),
       fname |-> Cell(<<"S", "T", "7", "0", "2", "2", "J", "0", "-", "P", "S", "G", ".", "e", "d", "f">>)]
    >>

\* The manifests: at most MaxFiles of the lines, in their order.
Manifests ==
    {[k \in 1..Cardinality(I) |-> ManifestLines[Kth(I, k)]] :
        I \in {J \in SUBSET (1..Len(ManifestLines)) : Cardinality(J) <= MaxFiles}}

\* Rows that SC-subjects.xls may hold: two nights of two subjects, and a row
\* without the age.
AgeRow(subject, night, age, sex) ==
    [subject |-> Cell(subject), night |-> Cell(night), age |-> age,
     sex |-> Cell(sex), lights_off |-> Cell("00:38:00")]
AgeRows == {AgeRow(0, 1, Cell(33), 1), AgeRow(0, 2, Cell(33), 1),
            AgeRow(1, 1, Cell(54), 2), AgeRow(1, 2, Cell(54), 2),
            AgeRow(0, 1, NaN, 1)}
AgeSheets == SeqsUpTo(AgeRows, MaxRows)

\* Rows that ST-subjects.xls may hold: a subject, with the nights of the two
\* conditions in either order. The subjects of a sheet are distinct.
TemazepamRow(subject, age, sex, placebo_night) ==
    [subject |-> Cell(subject), age |-> Cell(age), sex |-> Cell(sex),
     placebo |-> [night_nr |-> Cell(placebo_night),
                  lights_off |-> Cell("23:01:00")],
     temazepam |-> [night_nr |-> Cell(3 - placebo_night),
                    lights_off |-> Cell("23:48:00")]]
TemazepamRows == {TemazepamRow(1, 60, 1, n) : n \in {1, 2}}
                 \cup {TemazepamRow(2, 35, 2, n) : n \in {1, 2}}
TemazepamSheets ==
    {sh \in SeqsUpTo(TemazepamRows, MaxRows) :
        \A i, j \in 1..Len(sh) : i # j => sh[i].subject # sh[j].subject}

\* What BASE_URL may answer for SHA1SUMS: nothing, a file that is no
\* manifest, or a manifest.
ServedManifests ==
    {Unreachable, File([malformed |-> TRUE, rows |-> <<>>])}
    \cup {File([malformed |-> FALSE, rows |-> m]) : m \in Manifests}

\* What BASE_URL may answer for a spreadsheet whose SHA1 is `sha`: nothing,
\* other bytes, or one of the sheets.
ServedSheets(sha, other, sheets) ==
    {Unreachable, File([sha |-> other, sheet |-> <<>>])}
    \cup {File([sha |-> sha, sheet |-> sh]) : sh \in sheets}

\* The tables the CSV files hold before a regeneration.
OldAgeTable ==
    <<[subject |-> Cell(19), night |-> Cell(1), record_type |-> Cell(<<"P", "S", "G">>),
       age |-> Cell(28), sex |-> Cell("female"), lights_off |-> Cell("00:05:00"),
       sha |-> Cell("old"), fname |-> Cell(<<"o", "l", "d">>)]>>
OldTemazepamTable ==
    <<[c \in {Column("subject")} |-> Cell(21)]>>

NotRun == [fname |-> "", steps |-> <<>>, outcome |-> "idle", before |-> NoFile]

\* The environment a regeneration runs in.
Env == [pandas |-> pandas, server |-> server, csv |-> csv,
        writable |-> writable, tmpdirs |-> tmpdirs]

\* One call of _update_sleep_age_records().
UpdateSleepAgeRecords ==
    /\ run = NotRun
    /\ LET r == _update_sleep_age_records(AGE_SLEEP_RECORDS, Env)
       IN  /\ csv' = [csv EXCEPT ![AGE_SLEEP_RECORDS] = r.file]
           /\ tmpdirs' = r.tmpdirs
           /\ run' = [fname |-> AGE_SLEEP_RECORDS, steps |-> r.steps,
                      outcome |-> r.outcome, before |-> csv[AGE_SLEEP_RECORDS]]
    /\ UNCHANGED <<pandas, server, writable, fetchVars, subjectVars>>

\* One call of _update_sleep_temazepam_records(), pandas lenient or not where
\* a frame lacks what a step names.
UpdateSleepTemazepamRecords ==
    /\ run = NotRun
    /\ \E lenient \in BOOLEAN :
        LET r == _update_sleep_temazepam_records(TEMAZEPAM_SLEEP_RECORDS, Env,
                                                 lenient)
        IN  /\ csv' = [csv EXCEPT ![TEMAZEPAM_SLEEP_RECORDS] = r.file]
            /\ tmpdirs' = r.tmpdirs
            /\ run' = [fname |-> TEMAZEPAM_SLEEP_RECORDS, steps |-> r.steps,
                       outcome |-> r.outcome,
                       before |-> csv[TEMAZEPAM_SLEEP_RECORDS]]
    /\ UNCHANGED <<pandas, server, writable, fetchVars, subjectVars>>

\* Before a regeneration: the CSV files hold their old tables, no temporary
\* directory exists, and the server holds SHA1SUMS and one of the two
\* spreadsheets.
InitMeta ==
    /\ pandas \in BOOLEAN
    /\ writable \in BOOLEAN
    /\ tmpdirs = {}
    /\ csv = [f \in {AGE_SLEEP_RECORDS, TEMAZEPAM_SLEEP_RECORDS} |->
                 IF f = AGE_SLEEP_RECORDS THEN File(OldAgeTable)
                 ELSE File(OldTemazepamTable)]
    /\ \E sums \in ServedManifests :
        \/ \E xls \in ServedSheets(SC_SUBJECTS_SHA1, ST_SUBJECTS_SHA1, AgeSheets) :
               server = [sha1sums |-> sums,
                         xls |-> [n \in {SC_SUBJECTS, ST_SUBJECTS} |->
                                     IF n = SC_SUBJECTS THEN xls ELSE Unreachable]]
        \/ \E xls \in ServedSheets(ST_SUBJECTS_SHA1, SC_SUBJECTS_SHA1,
                                   TemazepamSheets) :
               server = [sha1sums |-> sums,
                         xls |-> [n \in {SC_SUBJECTS, ST_SUBJECTS} |->
                                     IF n = ST_SUBJECTS THEN xls ELSE Unreachable]]
    /\ run = NotRun
    /\ IdleFetch
    /\ IdleSubjects

NextMeta == UpdateSleepAgeRecords \/ UpdateSleepTemazepamRecords

SpecMeta == InitMeta /\ [][NextMeta]_vars

(***************************************************************************)
(* Claims on the regenerations                                             *)
(***************************************************************************)
Ran(fname) == run.fname = fname /\ run.outcome = "done"

\* The table the regeneration wrote.
Written == Val(csv[run.fname])

\* The rows of the manifest and of the spreadsheets the server holds.
ManifestRows == Val(server.sha1sums).rows
AgeSheet == Val(server.xls[SC_SUBJECTS]).sheet

\* C7, as stated: the table written by the temazepam variant has no row with
\* a missing cell, and its subject numbers are 0, 1, ..., k-1 for some k.
C7_TemazepamSubjectsDense ==
    Ran(TEMAZEPAM_SLEEP_RECORDS) =>
        LET numbers == {Val(Written[i][Column("subject")]) : i \in 1..Len(Written)}
        IN  /\ \A i \in 1..Len(Written) : ~HasNaN(Written[i])
            /\ numbers = 0..(Cardinality(numbers) - 1)

IsDigit(c) == \E i \in 1..Len(DigitChars) : DigitChars[i] = c
Digit(c) == (CHOOSE i \in 1..Len(DigitChars) : DigitChars[i] = c) - 1

\* A recording of the age variant is named SC4ssn..-<record type>.edf, for
\* the night n of the subject ss.
AgeRecording(name) ==
    /\ Len(name) >= 6
    /\ SubSeq(name, 1, 3) = <<"S", "C", "4">>
    /\ \A i \in 4..6 : IsDigit(name[i])
    /\ endswith(name, <<"e", "d", "f">>)
    /\ record_type(Cell(name)) # NaN
TripleOfRecording(name) ==
    <<10 * Digit(name[4]) + Digit(name[5]), Digit(name[6]),
      Val(record_type(Cell(name)))>>
AgeRecordings == {i \in 1..Len(ManifestRows) : AgeRecording(Val(ManifestRows[i].fname))}

\* The (subject, night, record type) triples present in both inputs.
TriplesInBoth ==
    {t \in {TripleOfRecording(Val(ManifestRows[i].fname)) : i \in AgeRecordings} :
        \E j \in 1..Len(AgeSheet) :
            /\ Val(AgeSheet[j].subject) = t[1]
            /\ Val(AgeSheet[j].night) = t[2]}

RowTriple(row) == <<Val(row.subject), Val(row.night), Val(row.record_type)>>

\* The table has one row for each triple of both inputs and no other row,
\* and the sex of each row is the label of the code of its subject.
OneRowPerTriple(table) ==
    /\ \A t \in TriplesInBoth :
           Cardinality({i \in 1..Len(table) : RowTriple(table[i]) = t}) = 1
    /\ \A i \in 1..Len(table) : RowTriple(table[i]) \in TriplesInBoth
    /\ \A i \in 1..Len(table) : \E j \in 1..Len(AgeSheet) :
           /\ AgeSheet[j].subject = table[i].subject
           /\ AgeSheet[j].night = table[i].night
           /\ table[i].sex = (IF Val(AgeSheet[j].sex) = 1 THEN Cell("female")
                              ELSE Cell("male"))

\* C8, as stated: for every manifest and spreadsheet, the table written by
\* the age variant has exactly one row per (subject, night, record type) of
\* both inputs, with sex recoded 1 to female and 2 to male.
C8_AgeOneRowPerTriple ==
    Ran(AGE_SLEEP_RECORDS) => OneRowPerTriple(Written)

\* Each input names a night, and a recording of a night, once, and the
\* spreadsheet has no missing cell.
AgeInputsWellFormed ==
    /\ \A i, j \in 1..Len(AgeSheet) :
           (/\ AgeSheet[i].subject = AgeSheet[j].subject
            /\ AgeSheet[i].night = AgeSheet[j].night) => i = j
    /\ \A i \in 1..Len(AgeSheet) : ~HasNaN(AgeSheet[i])
    /\ \A i, j \in AgeRecordings :
           TripleOfRecording(Val(ManifestRows[i].fname))
               = TripleOfRecording(Val(ManifestRows[j].fname)) => i = j

\* C8, amended: the same, for a spreadsheet that has one row per (subject,
\* night) and no missing cell and a manifest that has one recording per
\* (subject, night, record type).
C8_AgeOneRowPerTripleOfWellFormedInputs ==
    (Ran(AGE_SLEEP_RECORDS) /\ AgeInputsWellFormed) => OneRowPerTriple(Written)

\* A table of two rows, of a woman and of a man.
C8_Witness ==
    /\ Ran(AGE_SLEEP_RECORDS)
    /\ AgeInputsWellFormed
    /\ Len(Written) = 2
    /\ {Written[i].sex : i \in 1..Len(Written)} = {Cell("female"), Cell("male")}

\* C9: the CSV file changes only in the last step, to_csv, reached after
\* every step before it succeeded: a regeneration that fails in the
\* dependency check, a download, a verification, the parsing or the
\* construction of the table leaves the file as it was. The other CSV file
\* is never touched.
C9_FailureLeavesCsvUntouched ==
    run # NotRun =>
        /\ (run.outcome # "done" /\ run.steps # Steps) => csv[run.fname] = run.before
        /\ csv[run.fname] # run.before => (run.steps = Steps /\ run.outcome = "done")
        /\ \A f \in DOMAIN csv \ {run.fname} :
               csv[f] = (IF f = AGE_SLEEP_RECORDS THEN File(OldAgeTable)
                         ELSE File(OldTemazepamTable))

\* The construction of the table failed, after both downloads and the parsing.
C9_Witness ==
    /\ run.outcome \in {"KeyError", "ValueError"}
    /\ Len(run.steps) = 7
    /\ csv[run.fname] = run.before

\* C10: when a regeneration has ended, by a return or by an error of any
\* step, no temporary directory exists; it made one if and only if the
\* dependency check passed, before its first download.
C10_TempDirRemoved ==
    run # NotRun =>
        /\ tmpdirs = {}
        /\ (Len(run.steps) >= 2) <=> pandas
        /\ \A i \in 1..Len(run.steps) :
               run.steps[i] = "_TempDir" =>
                   \A j \in 1..(i - 1) : run.steps[j] = "_check_pandas_installed"

\* A regeneration that made its temporary directory and ended with an error.
C10_Witness ==
    /\ run.outcome \in {"TransportError", "IntegrityError", "ParserError",
                        "KeyError", "ValueError", "IOError"}
    /\ "_TempDir" \in Range(run.steps)
    /\ tmpdirs = {}

=============================================================================
